---- MODULE Spec2Model ----
(***************************************************************************)
(* Attendance check-in / check-out cycle of the HRMS client.               *)
(*                                                                         *)
(* The model has one backend (tables attendance, timesheets,               *)
(* timesheet_entries of one profile) and NumTabs browser tabs of that      *)
(* profile, each running one CheckInOutButton widget.  Every `await' of    *)
(* the widget is a point where other tabs, timers and responses may        *)
(* interleave: a handler is split at its awaits, a backend call is one     *)
(* atomic step of the backend, and the continuation after the last call    *)
(* is a step of its own.  A handler works on the React state it captured   *)
(* when it was invoked (its closure), kept in op[t].                       *)
(*                                                                         *)
(* The description field of a timesheet slot is carried verbatim into the   *)
(* rows and takes part in no decision; it is left out of the rows.         *)
(***************************************************************************)
EXTENDS Integers, Sequences, FiniteSets

\* ------------------------------------------------------------------ bounds
NumTabs == 2            \* tabs of the same profile
MaxDay == 1             \* calendar days 0..MaxDay when all tabs act
MaxSoloDay == 2         \* calendar days 0..MaxSoloDay when one tab acts
MaxPending == 1         \* re-query responses in flight per tab
MaxEditSlot == 1        \* slots of the capture form the user types into
MaxEvents == 4          \* user events in a behaviour of all tabs
MaxSoloEvents == 4      \* user events in a behaviour of one tab
MaxLongEvents == 5      \* user events in a longer behaviour of one tab
MaxFailures == 1        \* failed backend calls in a behaviour
HourStep == 2           \* the hours 0, HourStep, 2*HourStep, ... are typed
MinuteStep == 20        \* the minutes 0, MinuteStep, ... and 59 are typed
NumUsers == 2           \* signed-up users calling the backend
MaxAccounts == 1        \* accounts the user-creation endpoint creates
MaxRefreshes == 2       \* refreshUser calls in flight
MaxSheetTime == 4       \* seconds the attendance sheet stays open

\* ------------------------------------------------------- program constants
NumSlots == 10
NullId == 0
NoTime == -1
HoursPerDay == 24

Tabs == 1..NumTabs
\* the clock is read in hours; the last instant is the midnight that starts
\* day maxDay
LastTime(maxDay) == HoursPerDay * maxDay
EmptyTime == <<>>
TimeInputs == {EmptyTime, <<9, 0>>}
Fields == {"from_time", "to_time"}
\* values of an <input type="time">, as <<hours, minutes>>
ClockTimes ==
  {<<h, m>> : h \in {x \in 0..23 : x % HourStep = 0} \cup {23},
              m \in {x \in 0..59 : x % MinuteStep = 0} \cup {59}}

EmptyEntry == [from_time |-> EmptyTime, to_time |-> EmptyTime]
EmptyEntries == [i \in 1..NumSlots |-> EmptyEntry]

DuplicateKey == "duplicate key value violates unique constraint"
FailedToFetch == "Failed to fetch"
NoToast == [title |-> "", description |-> ""]
NoTimer == [due |-> NoTime, first |-> FALSE]
NoOp == [kind |-> "none", pc |-> "idle", attendanceId |-> NullId,
         checkInTime |-> NoTime, entries |-> EmptyEntries, now |-> NoTime,
         today |-> NoTime, totalHours |-> 0, timesheetId |-> NullId,
         ok |-> TRUE, message |-> "", id |-> NullId]

VARIABLES
  now,                  \* the wall clock, in hours
  attendance,           \* table public.attendance (rows of the profile)
  timesheets,           \* table public.timesheets
  timesheet_entries,    \* table public.timesheet_entries
  mounted,              \* mounted[t]: the widget of tab t is mounted
  isCheckedIn, checkInTime, attendanceId, showTimesheetDialog, loading,
  entries, isCompletedToday,      \* the widget's React state, per tab
  toast,                \* last notice shown in tab t
  timer,                \* the pending midnight timeout of tab t
  pending,              \* re-query responses on their way to tab t
  op,                   \* the check-in / check-out handler in flight in tab t
  events,               \* user events so far
  failures,             \* backend calls that failed so far
  authLoading, authUser,  \* AuthProvider: loading, authUser (its role)
  location,             \* the router's location
  element,              \* what the matching route renders
  user_roles,           \* table public.user_roles
  request,              \* the statement on public.attendance being authorised
  granted,              \* whether the row-level-security policies allow it
  sheetRecord,          \* a row of the attendance sheet
  currentTime,          \* the sheet's currentTime state, in seconds
  workingHours,         \* the row's working-hours cell
  ipService,            \* the address lookup service answers
  call,                 \* the create-user request being handled
  accounts,             \* auth.users rows created by the endpoint
  leave_balances,       \* users whose leave balances were initialised
  response,             \* the endpoint's last response
  user, session,        \* AuthProvider: user, session
  remoteSession,        \* the auth client holds a session
  refreshes,            \* the refreshUser calls in flight
  signOutPc             \* where the provider's signOut() stands

backend == <<attendance, timesheets, timesheet_entries>>
attState == <<isCheckedIn, checkInTime, attendanceId, isCompletedToday>>
formState == <<showTimesheetDialog, entries>>
widget == <<isCheckedIn, checkInTime, attendanceId, showTimesheetDialog,
            loading, entries, isCompletedToday>>
\* the attendance cycle: backend tables, widgets and their environment
cycle == <<now, attendance, timesheets, timesheet_entries, mounted,
           isCheckedIn, checkInTime, attendanceId, showTimesheetDialog,
           loading, entries, isCompletedToday, toast, timer, pending, op,
           events, failures>>
router == <<authLoading, authUser, location, element>>
policy == <<user_roles, request, granted>>
sheet == <<sheetRecord, currentTime, workingHours>>
\* the services the client calls besides the backend tables
\* the create-user edge function
endpoint == <<call, accounts, leave_balances, response>>
\* AuthProvider state besides authUser and loading, and the auth client
authx == <<user, session, remoteSession, refreshes, signOutPc>>
extras == <<ipService, endpoint, authx>>
\* what the attendance widget does not touch
others == <<router, policy, sheet, extras>>
vars == <<cycle, others>>

\* ---------------------------------------------------------- address lookup
NullIp == "null"
\* the address api.ipify.org reports for the client
ClientIp == "203.0.113.7"

\* a lookup that answers from memory when the service is down
getIpAddress_Cached == ClientIp

\* fetch, response.json(), data.ip; null when any of it throws
getIpAddress == IF ipService THEN ClientIp ELSE NullIp

\* ------------------------------------------------------------------- dates
\* format(new Date(), 'yyyy-MM-dd')
DateOf(time) == time \div HoursPerDay
today == DateOf(now)

\* nextMidnight.setHours(24, 0, 0, 0)
NextMidnight(time) == (DateOf(time) + 1) * HoursPerDay

\* ----------------------------------------------------------------- backend
\* id UUID PRIMARY KEY DEFAULT gen_random_uuid(): a fresh id (rows are never
\* deleted by the client)
NewId(table) == Cardinality(table) + 1

RowsOf(date) == {r \in attendance : r.attendance_date = date}

\* the table without its uniqueness constraint
AttendanceUniqueViolated_Off(date) == FALSE

\* UNIQUE (profile_id, attendance_date)
AttendanceUniqueViolated(date) == RowsOf(date) # {}

\* UNIQUE (profile_id, timesheet_date)
TimesheetUniqueViolated(date) == \E s \in timesheets : s.timesheet_date = date

NewAttendanceRow(id, date, time, ip) ==
  [id |-> id, attendance_date |-> date, check_in_time |-> time,
   check_out_time |-> NoTime, total_hours |-> NoTime,
   timesheet_completed |-> FALSE, check_in_ip |-> ip, check_out_ip |-> NullIp]

\* .update({...}).eq('id', attendanceId)
UpdateAttendance(id, time, hours, ip) ==
  {IF r.id = id
     THEN [r EXCEPT !.check_out_time = time, !.total_hours = hours,
                    !.timesheet_completed = TRUE, !.check_out_ip = ip]
     ELSE r : r \in attendance}

\* the answer of .select(...).eq(profile).eq(date).maybeSingle()
NoRowResponse(fromTimer) ==
  [kind |-> "none", id |-> NullId, check_in_time |-> NoTime,
   check_out_time |-> NoTime, fromTimer |-> fromTimer]
ErrorResponse(fromTimer) ==
  [kind |-> "error", id |-> NullId, check_in_time |-> NoTime,
   check_out_time |-> NoTime, fromTimer |-> fromTimer]
RowResponse(r, fromTimer) ==
  [kind |-> "row", id |-> r.id, check_in_time |-> r.check_in_time,
   check_out_time |-> r.check_out_time, fromTimer |-> fromTimer]

SelectToday(date, netOk, fromTimer) ==
  LET rows == RowsOf(date) IN
  IF ~netOk \/ Cardinality(rows) > 1 THEN ErrorResponse(fromTimer)
  ELSE IF rows = {} THEN NoRowResponse(fromTimer)
  ELSE RowResponse(CHOOSE r \in rows : TRUE, fromTimer)

\* ---------------------------------------------------------- pure functions
\* a validation that accepts a slot with only one of its times
validateTimesheet_Either(es) ==
  \E i \in 1..NumSlots :
    es[i].from_time # EmptyTime \/ es[i].to_time # EmptyTime

\* entries.filter(e => e.from_time && e.to_time).length > 0
Filled(e) == e.from_time # EmptyTime /\ e.to_time # EmptyTime
validateTimesheet(es) == \E i \in 1..NumSlots : Filled(es[i])

Minutes(hm) == hm[1] * 60 + hm[2]

\* a calculation that does not move `to' to the next day
calculateHours_NoWrap(from, to) ==
  LET f == Minutes(from)
      t == Minutes(to)
      diff == ((t - f) * 10000 + 30) \div 60
  IN IF diff > 0 THEN diff ELSE 0

\* hours between two HH:MM inputs, in 1/10000 of an hour (diff.toFixed(4))
calculateHours(from, to) ==
  LET f == Minutes(from)
      t0 == Minutes(to)
      t == IF t0 <= f THEN t0 + 24 * 60 ELSE t0
      diff == ((t - f) * 10000 + 30) \div 60
  IN IF diff > 0 THEN diff ELSE 0

\* rows built from every slot, filled or not
validEntries_All(es, timesheetId) ==
  {[timesheet_id |-> timesheetId, entry_number |-> i,
    from_time |-> es[i].from_time, to_time |-> es[i].to_time,
    hours |-> IF Filled(es[i])
                THEN calculateHours(es[i].from_time, es[i].to_time) ELSE 0]
   : i \in 1..NumSlots}

\* the rows built from the slots that have both times
validEntries(es, timesheetId) ==
  {[timesheet_id |-> timesheetId, entry_number |-> i,
    from_time |-> es[i].from_time, to_time |-> es[i].to_time,
    hours |-> calculateHours(es[i].from_time, es[i].to_time)]
   : i \in {j \in 1..NumSlots : Filled(es[j])}}

\* hours NUMERIC(4,2): a value in 1/10000 of an hour is stored rounded to
\* 1/100 of an hour
Numeric2(h) == (h + 50) \div 100
StoreEntries(rows) == {[e EXCEPT !.hours = Numeric2(e.hours)] : e \in rows}

\* ------------------------------------------------------------------ render
\* what the button area shows
Display(t) ==
  IF isCompletedToday[t] THEN "CompletedToday"
  ELSE IF isCheckedIn[t] THEN "CheckedIn"
  ELSE "NotCheckedIn"

\* a render that offers Check-IN on a completed day
CheckInButtonEnabled_Completed(t) ==
  mounted[t] /\ ~isCheckedIn[t] /\ ~loading[t]

CheckInButtonEnabled(t) ==
  mounted[t] /\ ~isCompletedToday[t] /\ ~isCheckedIn[t] /\ ~loading[t]
CheckOutButtonEnabled(t) ==
  mounted[t] /\ ~isCompletedToday[t] /\ isCheckedIn[t] /\ ~loading[t]
SubmitButtonEnabled(t) ==
  mounted[t] /\ showTimesheetDialog[t] /\ ~loading[t]

\* ------------------------------------------------------------------ routes
\* type UserRole; authUser is null or carries one of the roles
Roles == {"admin", "hr", "employee"}
NoUser == "none"
\* allowedRoles not given
NoRoles == {"undefined"}

\* the child routes of the three protected route trees
AdminPages ==
  {"", "employees", "departments", "designations", "attendance",
   "timesheets", "tasks", "leaves", "training", "training/details",
   "training/details/:profileId", "goalsheets", "payroll", "announcements",
   "settings"}
HRPages ==
  {"", "employees", "departments", "designations", "attendance",
   "timesheets", "tasks", "leaves", "training", "training/daily",
   "training/ongoing", "training/details", "training/details/:profileId",
   "goalsheets", "payroll", "announcements", "settings"}
EmployeePages ==
  {"", "attendance", "timesheet", "tasks", "leaves", "training",
   "training/daily", "training/ongoing", "goals", "settings"}
Pages(base) ==
  CASE base = "/admin" -> AdminPages
    [] base = "/hr" -> HRPages
    [] base = "/employee" -> EmployeePages
    [] OTHER -> {}
PageSets == {"/admin", "/hr", "/employee"}

At(base, page) == [base |-> base, page |-> page]
Root == At("/", "")
Login == At("/login", "")
\* a path that no route matches
Elsewhere == At("/employee", "payroll")
Locations ==
  {At(b, p) : b \in PageSets, p \in AdminPages \cup HRPages \cup EmployeePages}
  \cup {Root, Login}

\* what a route renders
LoadingElement == [kind |-> "loading", to |-> Root, base |-> ""]
NavigateElement(to) == [kind |-> "navigate", to |-> to, base |-> ""]
LoginElement == [kind |-> "login", to |-> Root, base |-> ""]
NotFoundElement == [kind |-> "notfound", to |-> Root, base |-> ""]
LayoutElement(base) == [kind |-> "children", to |-> Root, base |-> base]

getRedirectPath(role) ==
  CASE role = "admin" -> At("/admin", "")
    [] role = "hr" -> At("/hr", "")
    [] role = "employee" -> At("/employee", "")
    [] OTHER -> Root

\* a gate that lets every signed-in identity through
ProtectedRoute_NoRoleCheck(allowedRoles, children) ==
  IF authLoading THEN LoadingElement
  ELSE IF authUser = NoUser THEN NavigateElement(Login)
  ELSE children

ProtectedRoute(allowedRoles, children) ==
  IF authLoading THEN LoadingElement
  ELSE IF authUser = NoUser THEN NavigateElement(Login)
  ELSE IF allowedRoles # NoRoles /\ authUser \notin allowedRoles
    THEN NavigateElement(getRedirectPath(authUser))
  ELSE children

\* allowedRoles of the route tree at `base'
AllowedRoles(base) ==
  CASE base = "/admin" -> {"admin"}
    [] base = "/hr" -> {"hr"}
    [] base = "/employee" -> {"employee"}

\* <Routes>: the element of the route that matches the location
Routes(loc) ==
  IF loc = Root THEN NavigateElement(Login)
  ELSE IF loc = Login THEN LoginElement
  ELSE IF loc.base \in PageSets /\ loc.page \in Pages(loc.base)
    THEN ProtectedRoute(AllowedRoles(loc.base), LayoutElement(loc.base))
  ELSE NotFoundElement

\* -------------------------------------------------------- row-level security
Users == 1..NumUsers
\* every user has one profile
profiles == {[id |-> u, user_id |-> u] : u \in Users}
Commands == {"SELECT", "INSERT", "UPDATE", "DELETE"}
NoRequest == [cmd |-> "none", uid |-> 0, old |-> 0, new |-> 0]
\* auth.uid()
auth_uid == request.uid

has_role(user_id, role) ==
  \E x \in user_roles : x.user_id = user_id /\ x.role = role
is_admin == has_role(auth_uid, "admin")
is_hr == has_role(auth_uid, "hr")
is_admin_or_hr == is_admin \/ is_hr

\* a check that takes every profile for the caller's own
is_own_profile_Any(profile_id) == TRUE

is_own_profile(profile_id) ==
  \E q \in profiles : q.id = profile_id /\ q.user_id = auth_uid

\* the policies on public.attendance, on a row of profile profile_id
SelectUsing(profile_id) == is_admin_or_hr \/ is_own_profile(profile_id)
InsertCheck(profile_id) == is_own_profile(profile_id) \/ is_admin_or_hr
UpdateUsing(profile_id) == is_admin_or_hr \/ is_own_profile(profile_id)
DeleteUsing(profile_id) == is_admin

\* the statement of `request' passes the policies of its command; an UPDATE
\* policy without WITH CHECK applies its USING expression to the new row too
PolicyAllows ==
  CASE request.cmd = "SELECT" -> SelectUsing(request.old)
    [] request.cmd = "INSERT" -> InsertCheck(request.new)
    [] request.cmd = "UPDATE" ->
         UpdateUsing(request.old) /\ UpdateUsing(request.new)
    [] request.cmd = "DELETE" -> DeleteUsing(request.old)
    [] OTHER -> FALSE

\* ---------------------------------------------------------- attendance sheet
\* rows of the sheet: times in seconds, total_hours in 1/100 of an hour
SheetRecords ==
  [check_in_time : {NoTime, 0, 1}, check_out_time : {NoTime, 0, 1},
   total_hours : {NoTime, 0, 50, 850}]
NoCell == [source |-> "-", hours |-> 0, minutes |-> 0, seconds |-> 0]

formatWorkingHours(checkIn, checkOut, storedHours) ==
  IF checkOut # NoTime /\ storedHours # NoTime /\ storedHours # 0
    THEN [source |-> "stored",
          hours |-> storedHours \div 100,
          minutes |-> ((storedHours % 100) * 60) \div 100,
          seconds |-> (((storedHours % 100) * 3600) \div 100) % 60]
  ELSE IF checkIn # NoTime /\ checkOut = NoTime
    THEN LET diff == currentTime - checkIn
         IN [source |-> "live",
             hours |-> diff \div 3600,
             minutes |-> (diff % 3600) \div 60,
             seconds |-> diff % 60]
  ELSE NoCell

\* the cell of the row on the sheet
Cell == formatWorkingHours(sheetRecord.check_in_time,
                           sheetRecord.check_out_time,
                           sheetRecord.total_hours)

\* ------------------------------------------------- create-user endpoint
\* a request: whether it carries an Authorization header, the user its token
\* belongs to (NoCaller: none), the role field of its body, and its body
NoCaller == 0
RequestedRoles == {"admin", "hr", "employee", "", "owner"}
Bodies == {"complete", "missing", "malformed"}
NoCall == [pc |-> "idle", header |-> FALSE, caller |-> NoCaller, role |-> "",
           body |-> "complete", callerRole |-> "null"]
NoResponse == [status |-> 0, error |-> ""]
Respond(status, error) == [status |-> status, error |-> error]

\* .from('user_roles').select('role').eq('user_id', id).single(): the role
\* when exactly one row matches, null otherwise
SingleRole(id) ==
  LET rows == {x \in user_roles : x.user_id = id}
  IN IF Cardinality(rows) = 1 THEN (CHOOSE x \in rows : TRUE).role ELSE "null"

\* the answer of the checks before anything is created; status 0: all passed
Verdict(c, callerRole) ==
  IF ~c.header THEN Respond(401, "No authorization header")
  ELSE IF c.caller = NoCaller THEN Respond(401, "Unauthorized")
  ELSE IF callerRole = "null" \/ (callerRole # "admin" /\ callerRole # "hr")
    THEN Respond(403, "Only admin and HR can create users")
  ELSE IF c.body = "malformed" THEN Respond(500, "Internal server error")
  ELSE IF c.body = "missing" \/ c.role = ""
    THEN Respond(400, "Missing required fields")
  ELSE IF callerRole = "hr" /\ c.role # "employee"
    THEN Respond(403, "HR can only create employee accounts")
  ELSE NoResponse

\* id of the next account
NewUserId == NumUsers + Cardinality(accounts) + 1

\* ------------------------------------------------------------ AuthProvider
NoSession == "null"
\* the session of the signed-in user, and the User object it carries
TheSession == "session"
TheUser == "user"
\* a slot of refreshes: free, started, or holding what getCurrentUser read
NoRefresh == [pc |-> "free", result |-> NoUser, timer |-> FALSE]
RefreshSlots == 1..MaxRefreshes

\* nobody is signed in
InitSignedOut ==
  /\ user = NoUser
  /\ session = NoSession
  /\ remoteSession = FALSE
  /\ refreshes = [i \in RefreshSlots |-> NoRefresh]
  /\ signOutPc = "idle"

\* the employee is signed in and the provider has settled
InitSignedIn ==
  /\ user = TheUser
  /\ session = TheSession
  /\ remoteSession = TRUE
  /\ refreshes = [i \in RefreshSlots |-> NoRefresh]
  /\ signOutPc = "idle"

\* -------------------------------------------------------------------- Init
\* The widgets are constructed at the start of day 0.  An earlier session of
\* the profile may have left no row for the day, an open row, or a row that
\* is checked out together with its timesheet.
OpenRow == NewAttendanceRow(1, 0, 0, ClientIp)
ClosedRow == [OpenRow EXCEPT !.check_out_time = 0, !.total_hours = 0,
                            !.timesheet_completed = TRUE,
                            !.check_out_ip = ClientIp]
FilledEntries == [EmptyEntries EXCEPT ![1] = [from_time |-> <<9, 0>>,
                                               to_time |-> <<9, 0>>]]
InitBackend ==
  \/ attendance = {} /\ timesheets = {} /\ timesheet_entries = {}
  \/ attendance = {OpenRow} /\ timesheets = {} /\ timesheet_entries = {}
  \/ /\ attendance = {ClosedRow}
     /\ timesheets = {[id |-> 1, timesheet_date |-> 0, total_hours |-> 0]}
     /\ timesheet_entries = StoreEntries(validEntries(FilledEntries, 1))

\* the lookup service is up and the endpoint has served nothing
InitExtras ==
  /\ ipService = TRUE
  /\ call = NoCall
  /\ accounts = {}
  /\ leave_balances = {}
  /\ response = NoResponse

\* an employee is signed in on the dashboard; nobody calls the backend
\* directly and the attendance sheet shows an empty row
InitOthers ==
  /\ authLoading = FALSE
  /\ authUser = "employee"
  /\ location = At("/employee", "")
  /\ element = Routes(location)
  /\ user_roles = {[user_id |-> 1, role |-> "employee"]}
  /\ request = NoRequest
  /\ granted = FALSE
  /\ sheetRecord = [check_in_time |-> NoTime, check_out_time |-> NoTime,
                    total_hours |-> NoTime]
  /\ currentTime = 1
  /\ workingHours = NoCell
  /\ InitExtras
  /\ InitSignedIn

Init ==
  /\ InitOthers
  /\ now = 0
  /\ InitBackend
  /\ mounted = [t \in Tabs |-> TRUE]
  /\ isCheckedIn = [t \in Tabs |-> FALSE]
  /\ checkInTime = [t \in Tabs |-> NoTime]
  /\ attendanceId = [t \in Tabs |-> NullId]
  /\ showTimesheetDialog = [t \in Tabs |-> FALSE]
  /\ loading = [t \in Tabs |-> FALSE]
  /\ entries = [t \in Tabs |-> EmptyEntries]
  /\ isCompletedToday = [t \in Tabs |-> FALSE]
  /\ toast = [t \in Tabs |-> NoToast]
  \* the mount effects: the first timeout is scheduled, the first re-query
  \* has been answered and its answer is on its way
  /\ timer = [t \in Tabs |-> [due |-> NextMidnight(0), first |-> TRUE]]
  /\ pending = [t \in Tabs |-> {SelectToday(0, TRUE, FALSE)}]
  /\ op = [t \in Tabs |-> NoOp]
  /\ events = 0
  /\ failures = 0

\* ------------------------------------------------------------- environment
\* one more user event (click, keystroke, focus change, navigation)
UserEvent == events' = events + 1

\* a backend call succeeds, or fails while the outage budget lasts
NetOutcomes == IF failures < MaxFailures THEN BOOLEAN ELSE {TRUE}

\* ------------------------------------------------------------------- clock
\* time passes to the next local midnight
Tick(maxDay) ==
  /\ now < LastTime(maxDay)
  /\ now' = NextMidnight(now)
  /\ UNCHANGED <<backend, mounted, widget, toast, timer, pending, op, events,
                 failures>>
  /\ UNCHANGED others

\* ------------------------------------------------- checkTodayAttendance
\* the call up to its await: the query is sent and answered by the backend
checkTodayAttendance(t, fromTimer) ==
  /\ Cardinality(pending[t]) < MaxPending
  /\ \E netOk \in NetOutcomes :
       /\ failures' = failures + (IF netOk THEN 0 ELSE 1)
       /\ pending' = [pending EXCEPT
                       ![t] = @ \cup {SelectToday(today, netOk, fromTimer)}]

\* the widget state after the answer r, lines 85-108
ApplyIsCheckedIn(t, r) ==
  IF r.kind = "none" THEN FALSE
  ELSE IF r.kind = "row" /\ r.check_in_time # NoTime /\ r.check_out_time = NoTime
    THEN TRUE
  ELSE IF r.kind = "row" /\ r.check_out_time # NoTime THEN FALSE
  ELSE isCheckedIn[t]
ApplyCheckInTime(t, r) ==
  IF r.kind = "none" THEN NoTime
  ELSE IF r.kind = "row" /\ r.check_in_time # NoTime /\ r.check_out_time = NoTime
    THEN r.check_in_time
  ELSE IF r.kind = "row" /\ r.check_out_time # NoTime THEN NoTime
  ELSE checkInTime[t]
ApplyAttendanceId(t, r) ==
  IF r.kind = "none" THEN NullId
  ELSE IF r.kind = "row" THEN r.id
  ELSE attendanceId[t]
ApplyIsCompletedToday(t, r) ==
  IF r.kind = "none" THEN FALSE
  ELSE IF r.kind = "row" /\ r.check_in_time # NoTime /\ r.check_out_time = NoTime
    THEN isCompletedToday[t]
  ELSE IF r.kind = "row" /\ r.check_out_time # NoTime THEN TRUE
  ELSE isCompletedToday[t]

\* the continuation of checkTodayAttendance after its await; the timer
\* callback then schedules the next timeout, whose handle nobody keeps
QueryReturn(t, r) ==
  /\ r \in pending[t]
  /\ pending' = [pending EXCEPT ![t] = @ \ {r}]
  /\ IF mounted[t]
       THEN /\ isCheckedIn' = [isCheckedIn EXCEPT ![t] = ApplyIsCheckedIn(t, r)]
            /\ checkInTime' = [checkInTime EXCEPT ![t] = ApplyCheckInTime(t, r)]
            /\ attendanceId' = [attendanceId EXCEPT ![t] = ApplyAttendanceId(t, r)]
            /\ isCompletedToday' =
                 [isCompletedToday EXCEPT ![t] = ApplyIsCompletedToday(t, r)]
       ELSE UNCHANGED attState
  /\ timer' = IF r.fromTimer
                THEN [timer EXCEPT ![t] = [due |-> NextMidnight(now), first |-> FALSE]]
                ELSE timer
  /\ UNCHANGED <<now, backend, mounted, showTimesheetDialog, loading, entries,
                 toast, op>>
  /\ UNCHANGED <<events, failures>>
  /\ UNCHANGED others

\* window 'focus' listener
onFocus(t) ==
  /\ mounted[t]
  /\ checkTodayAttendance(t, FALSE)
  /\ UNCHANGED <<now, backend, mounted, widget, toast, timer, op>>
  /\ UserEvent
  /\ UNCHANGED others

\* a callback that forgets to clear isCompletedToday
MidnightReset_KeepCompleted(t) ==
  /\ timer[t].due # NoTime
  /\ now >= timer[t].due
  /\ timer' = [timer EXCEPT ![t] = NoTimer]
  /\ IF mounted[t]
       THEN /\ isCheckedIn' = [isCheckedIn EXCEPT ![t] = FALSE]
            /\ checkInTime' = [checkInTime EXCEPT ![t] = NoTime]
            /\ attendanceId' = [attendanceId EXCEPT ![t] = NullId]
       ELSE UNCHANGED <<isCheckedIn, checkInTime, attendanceId>>
  /\ checkTodayAttendance(t, TRUE)
  /\ UNCHANGED <<now, backend, mounted, showTimesheetDialog, loading, entries,
                 toast, op, isCompletedToday, events>>
  /\ UNCHANGED others

\* the timeout callback up to its await
MidnightReset(t) ==
  /\ timer[t].due # NoTime
  /\ now >= timer[t].due
  /\ timer' = [timer EXCEPT ![t] = NoTimer]
  /\ IF mounted[t]
       THEN /\ isCheckedIn' = [isCheckedIn EXCEPT ![t] = FALSE]
            /\ checkInTime' = [checkInTime EXCEPT ![t] = NoTime]
            /\ attendanceId' = [attendanceId EXCEPT ![t] = NullId]
            /\ isCompletedToday' = [isCompletedToday EXCEPT ![t] = FALSE]
       ELSE UNCHANGED attState
  /\ checkTodayAttendance(t, TRUE)
  /\ UNCHANGED <<now, backend, mounted, showTimesheetDialog, loading, entries,
                 toast, op>>
  /\ UNCHANGED events
  /\ UNCHANGED others

\* the cleanups of the two effects: clearTimeout(timeout) clears the handle of
\* the first timeout only; the component state is gone
Unmount(t) ==
  /\ mounted[t]
  /\ mounted' = [mounted EXCEPT ![t] = FALSE]
  /\ timer' = IF timer[t].first THEN [timer EXCEPT ![t] = NoTimer] ELSE timer
  /\ isCheckedIn' = [isCheckedIn EXCEPT ![t] = FALSE]
  /\ checkInTime' = [checkInTime EXCEPT ![t] = NoTime]
  /\ attendanceId' = [attendanceId EXCEPT ![t] = NullId]
  /\ isCompletedToday' = [isCompletedToday EXCEPT ![t] = FALSE]
  /\ showTimesheetDialog' = [showTimesheetDialog EXCEPT ![t] = FALSE]
  /\ loading' = [loading EXCEPT ![t] = FALSE]
  /\ entries' = [entries EXCEPT ![t] = EmptyEntries]
  /\ UNCHANGED <<now, backend, toast, pending, op>>
  /\ UserEvent
  /\ UNCHANGED failures
  /\ UNCHANGED others

\* ------------------------------------------------------------ handleCheckIn
AlreadyCheckedInToast ==
  [title |-> "Already Checked In",
   description |-> "You have already checked in today."]
ErrorToast(message) == [title |-> "Error", description |-> message]

\* a handler without its already-checked-in guard
handleCheckIn_NoGuard(t) ==
  /\ mounted[t]
  /\ op[t].kind = "none"
  /\ loading' = [loading EXCEPT ![t] = TRUE]
  /\ op' = [op EXCEPT ![t] = [NoOp EXCEPT !.kind = "checkin", !.pc = "insert"]]
  /\ UNCHANGED <<now, backend, mounted, attState, formState, timer, pending,
                 toast, failures>>
  /\ UserEvent
  /\ UNCHANGED others

\* the handler up to its first await
handleCheckIn(t) ==
  /\ mounted[t]
  /\ op[t].kind = "none"
  /\ IF attendanceId[t] # NullId /\ ~isCompletedToday[t]
       THEN /\ toast' = [toast EXCEPT ![t] = AlreadyCheckedInToast]
            /\ UNCHANGED <<loading, op>>
       ELSE /\ loading' = [loading EXCEPT ![t] = TRUE]
            /\ op' = [op EXCEPT ![t] = [NoOp EXCEPT !.kind = "checkin",
                                                    !.pc = "insert"]]
            /\ UNCHANGED toast
  /\ UNCHANGED <<now, backend, mounted, attState, formState, timer, pending>>
  /\ UserEvent
  /\ UNCHANGED failures
  /\ UNCHANGED others

\* the Check-IN button
ClickCheckIn(t) ==
  /\ CheckInButtonEnabled(t)
  /\ handleCheckIn(t)

\* supabase.from('attendance').insert({...}).select().maybeSingle()
CheckInInsert(t) ==
  /\ op[t].kind = "checkin"
  /\ op[t].pc = "insert"
  /\ \E netOk \in NetOutcomes :
     /\ failures' = failures + (IF netOk THEN 0 ELSE 1)
     /\ IF ~netOk
         THEN /\ op' = [op EXCEPT ![t].pc = "finish", ![t].ok = FALSE,
                                  ![t].message = FailedToFetch]
              /\ UNCHANGED backend
       ELSE IF AttendanceUniqueViolated(today)
         THEN /\ op' = [op EXCEPT ![t].pc = "finish", ![t].ok = FALSE,
                                  ![t].message = DuplicateKey,
                                  ![t].today = today]
              /\ UNCHANGED backend
       ELSE /\ attendance' = attendance \cup
                 {NewAttendanceRow(NewId(attendance), today, now, getIpAddress)}
            /\ op' = [op EXCEPT ![t].pc = "finish", ![t].ok = TRUE,
                                ![t].id = NewId(attendance), ![t].now = now,
                                ![t].today = today]
            /\ UNCHANGED <<timesheets, timesheet_entries>>
  /\ UNCHANGED <<now, mounted, widget, toast, timer, pending>>
  /\ UNCHANGED events
  /\ UNCHANGED others

\* a continuation that silently sends the insert again when it was refused
CheckInFinish_Retry(t) ==
  /\ op[t].kind = "checkin"
  /\ op[t].pc = "finish"
  /\ IF op[t].ok
       THEN /\ op' = [op EXCEPT ![t] = NoOp]
            /\ toast' = [toast EXCEPT ![t] =
                           [title |-> "Checked In", description |-> ""]]
            /\ IF mounted[t]
                 THEN /\ loading' = [loading EXCEPT ![t] = FALSE]
                      /\ attendanceId' = [attendanceId EXCEPT ![t] = op[t].id]
                      /\ isCheckedIn' = [isCheckedIn EXCEPT ![t] = TRUE]
                      /\ checkInTime' = [checkInTime EXCEPT ![t] = op[t].now]
                 ELSE UNCHANGED <<loading, attendanceId, isCheckedIn, checkInTime>>
       ELSE /\ op' = [op EXCEPT ![t].pc = "insert"]
            /\ UNCHANGED <<toast, loading, attendanceId, isCheckedIn, checkInTime>>
  /\ UNCHANGED <<now, backend, mounted, isCompletedToday, formState, timer,
                 pending, events, failures>>
  /\ UNCHANGED others

\* the continuation after the insert: success, catch, finally
CheckInFinish(t) ==
  /\ op[t].kind = "checkin"
  /\ op[t].pc = "finish"
  /\ op' = [op EXCEPT ![t] = NoOp]
  /\ toast' = [toast EXCEPT ![t] =
                 IF op[t].ok THEN [title |-> "Checked In", description |-> ""]
                 ELSE ErrorToast(op[t].message)]
  /\ IF mounted[t]
       THEN /\ loading' = [loading EXCEPT ![t] = FALSE]
            /\ IF op[t].ok
                 THEN /\ attendanceId' = [attendanceId EXCEPT ![t] = op[t].id]
                      /\ isCheckedIn' = [isCheckedIn EXCEPT ![t] = TRUE]
                      /\ checkInTime' = [checkInTime EXCEPT ![t] = op[t].now]
                 ELSE UNCHANGED <<attendanceId, isCheckedIn, checkInTime>>
       ELSE UNCHANGED <<loading, attendanceId, isCheckedIn, checkInTime>>
  /\ UNCHANGED <<now, backend, mounted, isCompletedToday, formState, timer,
                 pending>>
  /\ UNCHANGED <<events, failures>>
  /\ UNCHANGED others

\* ----------------------------------------------------------- capture form
\* a Check-OUT button that stamps the check-out as soon as it is pressed
handleCheckOutClick_Eager(t) ==
  /\ CheckOutButtonEnabled(t)
  /\ showTimesheetDialog' = [showTimesheetDialog EXCEPT ![t] = TRUE]
  /\ attendance' = UpdateAttendance(attendanceId[t], now, 0, getIpAddress)
  /\ UNCHANGED <<now, timesheets, timesheet_entries, mounted, attState,
                 loading, entries, toast, timer, pending, op>>
  /\ UserEvent
  /\ UNCHANGED failures
  /\ UNCHANGED others

\* the Check-OUT button
handleCheckOutClick(t) ==
  /\ CheckOutButtonEnabled(t)
  /\ showTimesheetDialog' = [showTimesheetDialog EXCEPT ![t] = TRUE]
  /\ UNCHANGED <<now, backend, mounted, attState, loading, entries, toast,
                 timer, pending, op>>
  /\ UserEvent
  /\ UNCHANGED failures
  /\ UNCHANGED others

\* Cancel, or the dialog's onOpenChange(false)
CancelDialog(t) ==
  /\ mounted[t]
  /\ showTimesheetDialog[t]
  /\ showTimesheetDialog' = [showTimesheetDialog EXCEPT ![t] = FALSE]
  /\ UNCHANGED <<now, backend, mounted, attState, loading, entries, toast,
                 timer, pending, op>>
  /\ UserEvent
  /\ UNCHANGED failures
  /\ UNCHANGED others

\* typing into a time input of the open form
updateEntry(t, index, field, value) ==
  /\ mounted[t]
  /\ showTimesheetDialog[t]
  /\ entries[t][index][field] # value
  /\ entries' = [entries EXCEPT ![t][index][field] = value]
  /\ UNCHANGED <<now, backend, mounted, attState, showTimesheetDialog,
                 loading, toast, timer, pending, op>>
  /\ UserEvent
  /\ UNCHANGED failures
  /\ UNCHANGED others

\* ----------------------------------------------------------- handleCheckOut
TimesheetRequiredToast ==
  [title |-> "Timesheet Required",
   description |-> "Please fill at least one timesheet entry before checking out"]

\* a handler that raises the loading flag before its early returns
handleCheckOut_LoadingFirst(t) ==
  /\ SubmitButtonEnabled(t)
  /\ op[t].kind = "none"
  /\ loading' = [loading EXCEPT ![t] = TRUE]
  /\ IF ~validateTimesheet(entries[t])
       THEN /\ toast' = [toast EXCEPT ![t] = TimesheetRequiredToast]
            /\ UNCHANGED op
       ELSE IF attendanceId[t] = NullId
         THEN UNCHANGED <<toast, op>>
       ELSE /\ op' = [op EXCEPT ![t] =
                        [NoOp EXCEPT !.kind = "checkout", !.pc = "update",
                                     !.attendanceId = attendanceId[t],
                                     !.checkInTime = checkInTime[t],
                                     !.entries = entries[t]]]
            /\ UNCHANGED toast
  /\ UNCHANGED <<now, backend, mounted, attState, formState, timer, pending>>
  /\ UserEvent
  /\ UNCHANGED failures
  /\ UNCHANGED others

\* Submit & Check-OUT: the handler up to its first await
handleCheckOut(t) ==
  /\ SubmitButtonEnabled(t)
  /\ op[t].kind = "none"
  /\ IF ~validateTimesheet(entries[t])
       THEN /\ toast' = [toast EXCEPT ![t] = TimesheetRequiredToast]
            /\ UNCHANGED <<loading, op>>
       ELSE IF attendanceId[t] = NullId
         THEN UNCHANGED <<toast, loading, op>>
       ELSE /\ loading' = [loading EXCEPT ![t] = TRUE]
            /\ op' = [op EXCEPT ![t] =
                        [NoOp EXCEPT !.kind = "checkout", !.pc = "update",
                                     !.attendanceId = attendanceId[t],
                                     !.checkInTime = checkInTime[t],
                                     !.entries = entries[t]]]
            /\ UNCHANGED toast
  /\ UNCHANGED <<now, backend, mounted, attState, formState, timer, pending>>
  /\ UserEvent
  /\ UNCHANGED failures
  /\ UNCHANGED others

\* an update that goes on to the timesheet insert although it failed
CheckOutUpdate_Proceed(t) ==
  /\ op[t].kind = "checkout"
  /\ op[t].pc = "update"
  /\ LET checkIn == IF op[t].checkInTime # NoTime THEN op[t].checkInTime ELSE now
         totalHours == now - checkIn
     IN \E netOk \in NetOutcomes :
     /\ failures' = failures + (IF netOk THEN 0 ELSE 1)
     /\ attendance' = IF netOk
                        THEN UpdateAttendance(op[t].attendanceId, now, totalHours,
                                              getIpAddress)
                        ELSE attendance
     /\ op' = [op EXCEPT ![t].pc = "timesheet",
                         ![t].now = now, ![t].today = today,
                         ![t].totalHours = totalHours]
  /\ UNCHANGED <<now, timesheets, timesheet_entries, mounted, widget,
                 toast, timer, pending>>
  /\ UNCHANGED events
  /\ UNCHANGED others

\* now, today, totalHours are computed; supabase.from('attendance').update
CheckOutUpdate(t) ==
  /\ op[t].kind = "checkout"
  /\ op[t].pc = "update"
  /\ LET checkIn == IF op[t].checkInTime # NoTime THEN op[t].checkInTime ELSE now
         totalHours == now - checkIn
     IN \E netOk \in NetOutcomes :
     /\ failures' = failures + (IF netOk THEN 0 ELSE 1)
     /\ IF ~netOk
         THEN /\ op' = [op EXCEPT ![t].pc = "finish", ![t].ok = FALSE,
                                  ![t].message = FailedToFetch,
                                  ![t].now = now, ![t].today = today,
                                  ![t].totalHours = totalHours]
              /\ UNCHANGED attendance
         ELSE /\ attendance' = UpdateAttendance(op[t].attendanceId, now,
                                                totalHours, getIpAddress)
              /\ op' = [op EXCEPT ![t].pc = "timesheet",
                                  ![t].now = now, ![t].today = today,
                                  ![t].totalHours = totalHours]
  /\ UNCHANGED <<now, timesheets, timesheet_entries, mounted, widget,
                 toast, timer, pending>>
  /\ UNCHANGED events
  /\ UNCHANGED others

\* supabase.from('timesheets').insert({...}).select().maybeSingle()
CheckOutTimesheet(t) ==
  /\ op[t].kind = "checkout"
  /\ op[t].pc = "timesheet"
  /\ \E netOk \in NetOutcomes :
     /\ failures' = failures + (IF netOk THEN 0 ELSE 1)
     /\ IF ~netOk
         THEN /\ op' = [op EXCEPT ![t].pc = "finish", ![t].ok = FALSE,
                                  ![t].message = FailedToFetch]
              /\ UNCHANGED timesheets
       ELSE IF TimesheetUniqueViolated(op[t].today)
         THEN /\ op' = [op EXCEPT ![t].pc = "finish", ![t].ok = FALSE,
                                  ![t].message = DuplicateKey]
              /\ UNCHANGED timesheets
       ELSE /\ timesheets' = timesheets \cup
                 {[id |-> NewId(timesheets), timesheet_date |-> op[t].today,
                   total_hours |-> op[t].totalHours]}
            /\ op' = [op EXCEPT ![t].pc = "entries",
                                ![t].timesheetId = NewId(timesheets)]
  /\ UNCHANGED <<now, attendance, timesheet_entries, mounted, widget, toast,
                 timer, pending>>
  /\ UNCHANGED events
  /\ UNCHANGED others

\* supabase.from('timesheet_entries').insert(validEntries)
CheckOutEntries(t) ==
  /\ op[t].kind = "checkout"
  /\ op[t].pc = "entries"
  /\ LET rows == validEntries(op[t].entries, op[t].timesheetId) IN
     IF rows = {}
       THEN /\ op' = [op EXCEPT ![t].pc = "finish", ![t].ok = TRUE]
            /\ UNCHANGED <<timesheet_entries, failures>>
       ELSE \E netOk \in NetOutcomes :
         /\ failures' = failures + (IF netOk THEN 0 ELSE 1)
         /\ IF ~netOk
           THEN /\ op' = [op EXCEPT ![t].pc = "finish", ![t].ok = FALSE,
                                    ![t].message = FailedToFetch]
                /\ UNCHANGED timesheet_entries
           ELSE /\ timesheet_entries' = timesheet_entries \cup StoreEntries(rows)
                /\ op' = [op EXCEPT ![t].pc = "finish", ![t].ok = TRUE]
  /\ UNCHANGED <<now, attendance, timesheets, mounted, widget, toast,
                 timer, pending>>
  /\ UNCHANGED events
  /\ UNCHANGED others

\* a continuation that marks the day complete whatever the writes did
CheckOutFinish_AlwaysCompleted(t) ==
  /\ op[t].kind = "checkout"
  /\ op[t].pc = "finish"
  /\ op' = [op EXCEPT ![t] = NoOp]
  /\ toast' = [toast EXCEPT ![t] =
                 IF op[t].ok
                   THEN [title |-> "Checked Out Successfully", description |-> ""]
                   ELSE ErrorToast(op[t].message)]
  /\ IF mounted[t]
       THEN /\ loading' = [loading EXCEPT ![t] = FALSE]
            /\ isCheckedIn' = [isCheckedIn EXCEPT ![t] = FALSE]
            /\ checkInTime' = [checkInTime EXCEPT ![t] = NoTime]
            /\ isCompletedToday' = [isCompletedToday EXCEPT ![t] = TRUE]
            /\ showTimesheetDialog' = [showTimesheetDialog EXCEPT ![t] = FALSE]
            /\ entries' = [entries EXCEPT ![t] = EmptyEntries]
       ELSE UNCHANGED <<loading, isCheckedIn, checkInTime, isCompletedToday,
                        showTimesheetDialog, entries>>
  /\ UNCHANGED <<now, backend, mounted, attendanceId, timer, pending, events,
                 failures>>
  /\ UNCHANGED others

\* the continuation after the last write: success, catch, finally
CheckOutFinish(t) ==
  /\ op[t].kind = "checkout"
  /\ op[t].pc = "finish"
  /\ op' = [op EXCEPT ![t] = NoOp]
  /\ toast' = [toast EXCEPT ![t] =
                 IF op[t].ok
                   THEN [title |-> "Checked Out Successfully", description |-> ""]
                   ELSE ErrorToast(op[t].message)]
  /\ IF mounted[t]
       THEN /\ loading' = [loading EXCEPT ![t] = FALSE]
            /\ IF op[t].ok
                 THEN /\ isCheckedIn' = [isCheckedIn EXCEPT ![t] = FALSE]
                      /\ checkInTime' = [checkInTime EXCEPT ![t] = NoTime]
                      /\ isCompletedToday' = [isCompletedToday EXCEPT ![t] = TRUE]
                      /\ showTimesheetDialog' =
                           [showTimesheetDialog EXCEPT ![t] = FALSE]
                      /\ entries' = [entries EXCEPT ![t] = EmptyEntries]
                 ELSE UNCHANGED <<isCheckedIn, checkInTime, isCompletedToday,
                                  showTimesheetDialog, entries>>
       ELSE UNCHANGED <<loading, isCheckedIn, checkInTime, isCompletedToday,
                        showTimesheetDialog, entries>>
  /\ UNCHANGED <<now, backend, mounted, attendanceId, timer, pending>>
  /\ UNCHANGED <<events, failures>>
  /\ UNCHANGED others

\* ------------------------------------------------------------ specification
\* the steps of the tabs in T, with at most `budget' user events, up to the
\* end of day maxDay
NextOf(T, budget, maxDay) ==
  \/ Tick(maxDay)
  \/ \E t \in T : events < budget /\ onFocus(t)
  \/ \E t \in T : \E r \in pending[t] : QueryReturn(t, r)
  \/ \E t \in T : MidnightReset(t)
  \/ \E t \in T : events < budget /\ Unmount(t)
  \/ \E t \in T : events < budget /\ ClickCheckIn(t)
  \/ \E t \in T : CheckInInsert(t)
  \/ \E t \in T : CheckInFinish(t)
  \/ \E t \in T : events < budget /\ handleCheckOutClick(t)
  \/ \E t \in T : events < budget /\ CancelDialog(t)
  \/ \E t \in T : \E i \in 1..MaxEditSlot : \E f \in Fields :
       \E v \in TimeInputs : events < budget /\ updateEntry(t, i, f, v)
  \/ \E t \in T : events < budget /\ handleCheckOut(t)
  \/ \E t \in T : CheckOutUpdate(t)
  \/ \E t \in T : CheckOutTimesheet(t)
  \/ \E t \in T : CheckOutEntries(t)
  \/ \E t \in T : CheckOutFinish(t)

\* all tabs of the profile act
Next == NextOf(Tabs, MaxEvents, MaxDay)
Spec == Init /\ [][Next]_vars

\* one tab acts, the others stay in the background
NextSolo == NextOf({1}, MaxSoloEvents, MaxSoloDay)
SpecSolo == Init /\ [][NextSolo]_vars

\* one tab acts, through a longer session
NextLong == NextOf({1}, MaxLongEvents, MaxSoloDay)
SpecLong == Init /\ [][NextLong]_vars

\* one tab is checked in on the day's open row, its form is open and the
\* first slot holds any two typed times; the form is submitted
InitHours ==
  /\ InitOthers
  /\ now = 0
  /\ attendance = {OpenRow} /\ timesheets = {} /\ timesheet_entries = {}
  /\ mounted = [t \in Tabs |-> TRUE]
  /\ isCheckedIn = [t \in Tabs |-> t = 1]
  /\ checkInTime = [t \in Tabs |-> IF t = 1 THEN OpenRow.check_in_time ELSE NoTime]
  /\ attendanceId = [t \in Tabs |-> IF t = 1 THEN OpenRow.id ELSE NullId]
  /\ showTimesheetDialog = [t \in Tabs |-> t = 1]
  /\ loading = [t \in Tabs |-> FALSE]
  /\ \E from \in ClockTimes : \E to \in ClockTimes :
       entries = [t \in Tabs |->
                    IF t = 1
                      THEN [EmptyEntries EXCEPT ![1] = [from_time |-> from,
                                                        to_time |-> to]]
                      ELSE EmptyEntries]
  /\ isCompletedToday = [t \in Tabs |-> FALSE]
  /\ toast = [t \in Tabs |-> NoToast]
  /\ timer = [t \in Tabs |-> [due |-> NextMidnight(0), first |-> TRUE]]
  /\ pending = [t \in Tabs |->
                  IF t = 1 THEN {} ELSE {SelectToday(0, TRUE, FALSE)}]
  /\ op = [t \in Tabs |-> NoOp]
  /\ events = 0
  /\ failures = 0
NextHours ==
  \/ events < MaxSoloEvents /\ handleCheckOut(1)
  \/ CheckOutUpdate(1)
  \/ CheckOutTimesheet(1)
  \/ CheckOutEntries(1)
  \/ CheckOutFinish(1)
SpecHours == InitHours /\ [][NextHours]_vars

\* the lookup service goes down or comes back
LookupOutage ==
  /\ ipService' = ~ipService
  /\ UNCHANGED <<cycle, router, policy, sheet, endpoint, authx>>

\* one tab acts through a longer session while the lookup service comes and
\* goes
NextAddr ==
  \/ NextLong
  \/ LookupOutage
SpecAddr == Init /\ [][NextAddr]_vars

\* one tab, and the controller's operation checkIn() is also invoked
\* directly, in any widget state
NextApi ==
  \/ NextSolo
  \/ events < MaxSoloEvents /\ handleCheckIn(1)
SpecApi == Init /\ [][NextApi]_vars

\* ------------------------------------------------------------- route gate
\* the widgets idle on an empty day
InitCycle ==
  /\ now = 0
  /\ attendance = {} /\ timesheets = {} /\ timesheet_entries = {}
  /\ mounted = [t \in Tabs |-> TRUE]
  /\ isCheckedIn = [t \in Tabs |-> FALSE]
  /\ checkInTime = [t \in Tabs |-> NoTime]
  /\ attendanceId = [t \in Tabs |-> NullId]
  /\ showTimesheetDialog = [t \in Tabs |-> FALSE]
  /\ loading = [t \in Tabs |-> FALSE]
  /\ entries = [t \in Tabs |-> EmptyEntries]
  /\ isCompletedToday = [t \in Tabs |-> FALSE]
  /\ toast = [t \in Tabs |-> NoToast]
  /\ timer = [t \in Tabs |-> [due |-> NextMidnight(0), first |-> TRUE]]
  /\ pending = [t \in Tabs |-> {}]
  /\ op = [t \in Tabs |-> NoOp]
  /\ events = 0
  /\ failures = 0

\* AuthProvider: setAuthUser
setAuthUser(u) ==
  /\ authUser # u
  /\ authUser' = u
  /\ UNCHANGED <<authLoading, location>>
  /\ element' = Routes(location)'
  /\ UNCHANGED <<cycle, policy, sheet, extras>>

\* AuthProvider: setLoading(false)
setLoading ==
  /\ authLoading
  /\ authLoading' = FALSE
  /\ UNCHANGED <<authUser, location>>
  /\ element' = Routes(location)'
  /\ UNCHANGED <<cycle, policy, sheet, extras>>

\* the visitor opens a link or types an address
Goto(loc) ==
  /\ location # loc
  /\ location' = loc
  /\ UNCHANGED <<authLoading, authUser>>
  /\ element' = Routes(location)'
  /\ UNCHANGED <<cycle, policy, sheet, extras>>

\* <Navigate to=... replace />
FollowNavigate ==
  /\ element.kind = "navigate"
  /\ location' = element.to
  /\ UNCHANGED <<authLoading, authUser>>
  /\ element' = Routes(location)'
  /\ UNCHANGED <<cycle, policy, sheet, extras>>

InitRoute ==
  /\ InitCycle
  /\ InitExtras
  /\ InitSignedOut
  /\ authLoading = TRUE
  /\ authUser = NoUser
  /\ location = Root
  /\ element = Routes(location)
  /\ user_roles = {}
  /\ request = NoRequest
  /\ granted = FALSE
  /\ sheetRecord = [check_in_time |-> NoTime, check_out_time |-> NoTime,
                    total_hours |-> NoTime]
  /\ currentTime = 1
  /\ workingHours = NoCell
NextRoute ==
  \/ FollowNavigate
  \/ \E u \in Roles \cup {NoUser} : setAuthUser(u)
  \/ setLoading
  \/ \E loc \in Locations \cup {Elsewhere} : Goto(loc)
SpecRoute == InitRoute /\ [][NextRoute]_vars

\* ------------------------------------------------------ row-level security
\* an administrator gives a role to a user, or takes it away
AssignRole(u, r) ==
  /\ ~has_role(u, r)
  /\ user_roles' = user_roles \cup {[user_id |-> u, role |-> r]}
  /\ request' = NoRequest
  /\ granted' = FALSE
  /\ UNCHANGED <<cycle, router, sheet, extras>>
RevokeRole(u, r) ==
  /\ has_role(u, r)
  /\ user_roles' = user_roles \ {[user_id |-> u, role |-> r]}
  /\ request' = NoRequest
  /\ granted' = FALSE
  /\ UNCHANGED <<cycle, router, sheet, extras>>

\* user uid sends a statement on an attendance row of profile `old' (for
\* INSERT and UPDATE, giving the row the profile `new')
Authorise(cmd, uid, old, new) ==
  /\ request' = [cmd |-> cmd, uid |-> uid, old |-> old, new |-> new]
  /\ request' # request
  /\ UNCHANGED user_roles
  /\ granted' = PolicyAllows'
  /\ UNCHANGED <<cycle, router, sheet, extras>>

InitPolicy ==
  /\ InitCycle
  /\ InitExtras
  /\ InitSignedOut
  /\ authLoading = FALSE
  /\ authUser = NoUser
  /\ location = Login
  /\ element = Routes(location)
  /\ user_roles = {[user_id |-> u, role |-> "employee"] : u \in Users}
  /\ request = NoRequest
  /\ granted = FALSE
  /\ sheetRecord = [check_in_time |-> NoTime, check_out_time |-> NoTime,
                    total_hours |-> NoTime]
  /\ currentTime = 1
  /\ workingHours = NoCell
NextPolicy ==
  \/ \E u \in Users : \E r \in Roles : RevokeRole(u, r)
  \/ \E u \in Users : \E r \in Roles : AssignRole(u, r)
  \/ \E cmd \in Commands : \E uid \in Users :
       \E old \in Users : \E new \in Users : Authorise(cmd, uid, old, new)
SpecPolicy == InitPolicy /\ [][NextPolicy]_vars

\* -------------------------------------------------------- attendance sheet
\* fetchAttendance put the row r on the sheet
fetchAttendance(r) ==
  /\ sheetRecord # r
  /\ sheetRecord' = r
  /\ UNCHANGED currentTime
  /\ workingHours' = Cell'
  /\ UNCHANGED <<cycle, router, policy, extras>>

\* setInterval(() => setCurrentTime(new Date()), 1000)
SheetTick ==
  /\ currentTime < MaxSheetTime
  /\ currentTime' = currentTime + 1
  /\ UNCHANGED sheetRecord
  /\ workingHours' = Cell'
  /\ UNCHANGED <<cycle, router, policy, extras>>

InitSheet ==
  /\ InitCycle
  /\ InitExtras
  /\ InitSignedIn
  /\ authLoading = FALSE
  /\ authUser = "admin"
  /\ location = At("/admin", "attendance")
  /\ element = Routes(location)
  /\ user_roles = {[user_id |-> 1, role |-> "admin"]}
  /\ request = NoRequest
  /\ granted = FALSE
  /\ sheetRecord \in SheetRecords
  /\ currentTime = 1
  /\ workingHours = Cell
NextSheet ==
  \/ \E r \in SheetRecords : fetchAttendance(r)
  \/ SheetTick
SpecSheet == InitSheet /\ [][NextSheet]_vars

\* ------------------------------------------------- create-user endpoint
\* a POST reaches the edge function
ReceiveRequest(header, caller, role, body) ==
  /\ call.pc = "idle"
  /\ Cardinality(accounts) < MaxAccounts
  /\ call' = [pc |-> "verify", header |-> header, caller |-> caller,
              role |-> role, body |-> body, callerRole |-> "null"]
  /\ response' = NoResponse
  /\ UNCHANGED <<accounts, leave_balances>>
  /\ UNCHANGED <<cycle, router, policy, sheet, ipService, authx>>

\* checks that let HR create any role
VerifyCaller_NoHrLimit ==
  /\ call.pc = "verify"
  /\ LET callerRole == IF call.header /\ call.caller # NoCaller
                         THEN SingleRole(call.caller) ELSE "null"
         verdict == Verdict([call EXCEPT !.role =
                               IF @ \in {"admin", "hr"} THEN "employee" ELSE @],
                            callerRole)
     IN IF verdict = NoResponse
          THEN /\ call' = [call EXCEPT !.pc = "create", !.callerRole = callerRole]
               /\ UNCHANGED response
          ELSE /\ call' = [call EXCEPT !.pc = "idle", !.callerRole = callerRole]
               /\ response' = verdict
  /\ UNCHANGED <<accounts, leave_balances>>
  /\ UNCHANGED <<cycle, router, policy, sheet, ipService, authx>>

\* the checks of the handler: header, calling user, caller's role, body
VerifyCaller ==
  /\ call.pc = "verify"
  /\ LET callerRole == IF call.header /\ call.caller # NoCaller
                         THEN SingleRole(call.caller) ELSE "null"
         verdict == Verdict(call, callerRole)
     IN IF verdict = NoResponse
          THEN /\ call' = [call EXCEPT !.pc = "create", !.callerRole = callerRole]
               /\ UNCHANGED response
          ELSE /\ call' = [call EXCEPT !.pc = "idle", !.callerRole = callerRole]
               /\ response' = verdict
  /\ UNCHANGED <<accounts, leave_balances>>
  /\ UNCHANGED <<cycle, router, policy, sheet, ipService, authx>>

\* auth.admin.createUser, the role insert and the leave balances
CreateUser ==
  /\ call.pc = "create"
  /\ call' = [call EXCEPT !.pc = "idle"]
  /\ \E created \in BOOLEAN : \E profile \in BOOLEAN :
       IF ~created
         THEN /\ response' = Respond(400, "createError")
              /\ UNCHANGED <<accounts, leave_balances, user_roles>>
       ELSE IF call.role \notin Roles
         THEN /\ accounts' = accounts \cup {NewUserId}
              /\ response' = Respond(500, "Failed to assign role")
              /\ UNCHANGED <<leave_balances, user_roles>>
       ELSE /\ accounts' = accounts \cup {NewUserId}
            /\ user_roles' = user_roles \cup
                 {[user_id |-> NewUserId, role |-> call.role]}
            /\ leave_balances' = IF profile
                                   THEN leave_balances \cup {NewUserId}
                                   ELSE leave_balances
            /\ response' = Respond(200, "")
  /\ UNCHANGED <<request, granted>>
  /\ UNCHANGED <<cycle, router, sheet, ipService, authx>>

InitEndpoint ==
  /\ InitCycle
  /\ InitExtras
  /\ InitSignedOut
  /\ authLoading = FALSE
  /\ authUser = NoUser
  /\ location = Login
  /\ element = Routes(location)
  /\ user_roles = {[user_id |-> u, role |-> "employee"] : u \in Users}
  /\ request = NoRequest
  /\ granted = FALSE
  /\ sheetRecord = [check_in_time |-> NoTime, check_out_time |-> NoTime,
                    total_hours |-> NoTime]
  /\ currentTime = 1
  /\ workingHours = NoCell
NextEndpoint ==
  \/ \E u \in Users : \E r \in Roles : RevokeRole(u, r)
  \/ \E u \in Users : \E r \in Roles : AssignRole(u, r)
  \/ \E header \in BOOLEAN : \E caller \in Users \cup {NoCaller} :
       \E role \in RequestedRoles : \E body \in Bodies :
         \* a body that does not parse has no role field
         /\ body = "malformed" => role = ""
         /\ ReceiveRequest(header, caller, role, body)
  \/ VerifyCaller
  \/ CreateUser
SpecEndpoint == InitEndpoint /\ [][NextEndpoint]_vars

\* ------------------------------------------------------------ AuthProvider
\* what the provider's actions leave alone
NotAuth == <<cycle, policy, sheet, ipService, endpoint, location>>

\* setTimeout(async () => { await refreshUser(); setLoading(false) }, 0)
ScheduleRefresh(fromTimer) ==
  IF \E i \in RefreshSlots : refreshes[i].pc = "free"
    THEN LET i == CHOOSE j \in RefreshSlots : refreshes[j].pc = "free"
         IN refreshes' = [refreshes EXCEPT
                            ![i] = [pc |-> "started", result |-> NoUser,
                                    timer |-> fromTimer]]
    ELSE UNCHANGED refreshes

\* onAuthStateChange: SIGNED_IN after a login, TOKEN_REFRESHED while a
\* session is held; both carry the session
AuthEvent(event) ==
  /\ event \in {"SIGNED_IN", "TOKEN_REFRESHED"}
  /\ event = "SIGNED_IN" => ~remoteSession
  /\ event = "TOKEN_REFRESHED" => remoteSession
  /\ signOutPc # "remote"
  /\ \E i \in RefreshSlots : refreshes[i].pc = "free"
  /\ remoteSession' = TRUE
  /\ session' = TheSession
  /\ user' = TheUser
  /\ ScheduleRefresh(TRUE)
  /\ signOutPc' = "idle"
  /\ UNCHANGED <<authLoading, authUser, element>>
  /\ UNCHANGED NotAuth

\* getCurrentUser: the user, role and profile are read with the session the
\* client holds
getCurrentUser == IF remoteSession THEN "employee" ELSE NoUser

RefreshFetch(i) ==
  /\ refreshes[i].pc = "started"
  /\ refreshes' = [refreshes EXCEPT ![i].pc = "fetched",
                                    ![i].result = getCurrentUser]
  /\ UNCHANGED <<user, session, remoteSession, signOutPc>>
  /\ UNCHANGED router
  /\ UNCHANGED <<cycle, policy, sheet, ipService, endpoint>>

\* the continuation of refreshUser: setAuthUser(currentUser), and
\* setLoading(false) in the timer callback
RefreshReturn(i) ==
  /\ refreshes[i].pc = "fetched"
  /\ refreshes' = [refreshes EXCEPT ![i] = NoRefresh]
  /\ authUser' = refreshes[i].result
  /\ authLoading' = IF refreshes[i].timer THEN FALSE ELSE authLoading
  /\ UNCHANGED <<user, session, remoteSession, signOutPc>>
  /\ UNCHANGED NotAuth
  /\ element' = Routes(location)'

\* signOut() up to its await: the local state is cleared first
signOut ==
  /\ signOutPc # "remote"
  /\ user' = NoUser
  /\ session' = NoSession
  /\ authUser' = NoUser
  /\ signOutPc' = "remote"
  /\ UNCHANGED <<authLoading, remoteSession, refreshes>>
  /\ UNCHANGED NotAuth
  /\ element' = Routes(location)'

\* supabase.auth.signOut() settles: the session is dropped and SIGNED_OUT is
\* handled, or the call failed; then signOut() returns
SignOutRemote ==
  /\ signOutPc = "remote"
  /\ signOutPc' = "returned"
  /\ user' = NoUser
  /\ session' = NoSession
  /\ authUser' = NoUser
  /\ \E ok \in BOOLEAN :
       /\ remoteSession' = IF ok THEN FALSE ELSE remoteSession
       /\ authLoading' = IF ok THEN FALSE ELSE authLoading
  /\ UNCHANGED refreshes
  /\ UNCHANGED NotAuth
  /\ element' = Routes(location)'

\* the provider mounts: nobody or the employee holds a session; with a
\* session initializeAuth has set it and its refreshUser is under way
InitAuth ==
  /\ InitCycle
  /\ ipService = TRUE
  /\ call = NoCall /\ accounts = {} /\ leave_balances = {}
  /\ response = NoResponse
  /\ location \in {At("/employee", ""), Login}
  /\ authUser = NoUser
  /\ remoteSession \in BOOLEAN
  /\ authLoading = remoteSession
  /\ user = IF remoteSession THEN TheUser ELSE NoUser
  /\ session = IF remoteSession THEN TheSession ELSE NoSession
  /\ refreshes = [i \in RefreshSlots |->
                    IF i = 1 /\ remoteSession
                      THEN [pc |-> "started", result |-> NoUser, timer |-> TRUE]
                      ELSE NoRefresh]
  /\ signOutPc = "idle"
  /\ element = Routes(location)
  /\ user_roles = {[user_id |-> 1, role |-> "employee"]}
  /\ request = NoRequest
  /\ granted = FALSE
  /\ sheetRecord = [check_in_time |-> NoTime, check_out_time |-> NoTime,
                    total_hours |-> NoTime]
  /\ currentTime = 1
  /\ workingHours = NoCell
NextAuth ==
  \/ \E event \in {"SIGNED_IN", "TOKEN_REFRESHED"} : AuthEvent(event)
  \/ \E i \in RefreshSlots : RefreshFetch(i)
  \/ \E i \in RefreshSlots : RefreshReturn(i)
  \/ signOut
  \/ SignOutRemote
SpecAuth == InitAuth /\ [][NextAuth]_vars

\* ================================================================== claims

\* ---- C1: the backend never holds two attendance rows for the same
\* (profile, calendar date), whatever the tabs do.
C1_OneRecordPerDay ==
  \A r1 \in attendance : \A r2 \in attendance :
    r1.attendance_date = r2.attendance_date => r1 = r2

\* a second insert for the day was attempted and refused
C1_Witness ==
  \E t \in Tabs :
    /\ op[t].kind = "checkin" /\ op[t].pc = "finish"
    /\ ~op[t].ok /\ op[t].message = DuplicateKey
    /\ RowsOf(op[t].today) # {}

\* ---- C2 (as stated): a row that has a check-out time keeps its check-out
\* time and its total hours in every later step.
C2_CheckedOutOnce ==
  [][\A r \in attendance :
       r.check_out_time # NoTime =>
         \E q \in attendance' :
           /\ q.id = r.id
           /\ q.check_out_time = r.check_out_time
           /\ q.total_hours = r.total_hours]_vars

\* ---- C3: a submit with no slot that has both times is refused on the
\* spot: the notice is shown, no handler starts, no query is sent, no row
\* and no widget state changes.
NoSlotFilled(es) ==
  \A i \in 1..NumSlots :
    es[i].from_time = EmptyTime \/ es[i].to_time = EmptyTime

C3_RejectedBeforeAnyCall ==
  [][\A t \in Tabs :
       (NoSlotFilled(entries[t]) /\ op[t].kind = "none") =>
         /\ op'[t].kind # "checkout"
         /\ handleCheckOut(t) =>
              /\ toast'[t] = TimesheetRequiredToast
              /\ UNCHANGED <<backend, widget, pending, op, timer, failures>>]_vars

\* the refusal happened in a checked-in widget with a half-filled form
C3_Witness ==
  \E t \in Tabs :
    /\ toast[t] = TimesheetRequiredToast
    /\ isCheckedIn[t] /\ attendanceId[t] # NullId /\ showTimesheetDialog[t]
    /\ entries[t][1].from_time # EmptyTime

\* ---- C4: a successful check-out leaves the widget CompletedToday, and
\* while the widget is CompletedToday no check-in starts from it: no insert
\* is issued, no row is created by it and it stays CompletedToday.
CheckOutSucceeds(t) ==
  /\ op[t].kind = "checkout" /\ op[t].pc = "finish" /\ op[t].ok
  /\ op'[t] = NoOp /\ mounted[t]

CheckInFails(t) ==
  /\ op[t].kind = "checkin" /\ op[t].pc = "finish" /\ ~op[t].ok
  /\ op'[t] # op[t]

C5_ConcurrentCheckIn ==
  [][/\ \A t \in Tabs :
          CheckInFails(t) =>
            /\ toast'[t].title = "Error"
            /\ op'[t] = NoOp
            /\ UNCHANGED <<backend, attState, pending>>
     /\ \A t1 \in Tabs : \A t2 \in Tabs \ {t1} :
          (/\ op'[t1].kind = "checkin" /\ op'[t1].pc = "finish"
           /\ op'[t2].kind = "checkin" /\ op'[t2].pc = "finish"
           /\ op'[t1].today = op'[t2].today)
          => ~(op'[t1].ok /\ op'[t2].ok)]_vars

\* two tabs showed NotCheckedIn and checked in for the same date: one insert
\* went through, the other was refused
C5_Witness ==
  \E t1 \in Tabs : \E t2 \in Tabs \ {t1} :
    /\ op[t1].kind = "checkin" /\ op[t1].pc = "finish" /\ op[t1].ok
    /\ op[t2].kind = "checkin" /\ op[t2].pc = "finish" /\ ~op[t2].ok
    /\ op[t2].message = DuplicateKey
    /\ op[t1].today = op[t2].today
    /\ Display(t1) = "NotCheckedIn" /\ Display(t2) = "NotCheckedIn"

\* ---- C6: checkIn invoked while the widget knows a record of today that
\* is not completed shows the error notice, issues no insert and changes no
\* widget state.
C6_AlreadyCheckedIn ==
  [][\A t \in Tabs :
       (attendanceId[t] # NullId /\ ~isCompletedToday[t] /\ op[t].kind = "none")
       => /\ op'[t].kind # "checkin"
          /\ handleCheckIn(t) =>
               /\ toast'[t] = AlreadyCheckedInToast
               /\ UNCHANGED <<backend, widget, pending, op, timer, failures>>]_vars

\* the refusal happened in a checked-in widget
C6_Witness ==
  \E t \in Tabs :
    /\ toast[t] = AlreadyCheckedInToast
    /\ isCheckedIn[t] /\ attendanceId[t] # NullId /\ ~isCompletedToday[t]

\* ---- C7 (as stated): when a re-query returns with the row it read (or
\* with no row), the widget then shows the state of that row, whatever it
\* showed before.
Shown(r) ==
  IF r.kind = "none" THEN "NotCheckedIn"
  ELSE IF r.check_out_time # NoTime THEN "CompletedToday"
  ELSE "CheckedIn"

C7_ResyncMatchesBackend ==
  [][\A t \in Tabs : \A r \in pending[t] :
       (mounted[t] /\ r.kind # "error" /\ r \notin pending'[t] /\ mounted'[t])
       => Display(t)' = Shown(r)]_vars

\* ---- C8: while the widget is mounted a midnight timeout or its callback
\* is always outstanding, every timeout is due at a local midnight, its
\* callback resets the attendance state (the widget shows NotCheckedIn) and
\* sends the re-query, and the return of that re-query schedules the next
\* timeout.
TimerFires(t) ==
  timer[t].due # NoTime /\ timer'[t] = NoTimer /\ mounted[t] /\ mounted'[t]

C8_MidnightReset ==
  [][\A t \in Tabs :
       /\ TimerFires(t) =>
            /\ now >= timer[t].due
            /\ Display(t)' = "NotCheckedIn"
            /\ attendanceId'[t] = NullId /\ checkInTime'[t] = NoTime
            /\ \E r \in pending'[t] : r.fromTimer
       /\ \A r \in pending[t] :
            (r.fromTimer /\ r \notin pending'[t]) =>
              timer'[t] = [due |-> NextMidnight(now), first |-> FALSE]
       /\ mounted'[t] =>
            /\ timer'[t].due # NoTime \/ \E r \in pending'[t] : r.fromTimer
            /\ timer'[t].due # NoTime =>
                 timer'[t].due = NextMidnight(timer'[t].due - 1)]_vars

\* the widget checked out, and the callbacks of two midnights have run: it
\* shows NotCheckedIn and the third timeout is scheduled
C8_Witness ==
  \E t \in Tabs :
    /\ mounted[t]
    /\ toast[t].title = "Checked Out Successfully"
    /\ Display(t) = "NotCheckedIn"
    /\ today = 2
    /\ timer[t] = [due |-> NextMidnight(now), first |-> FALSE]

\* ---- C9 (as stated): once the widget is unmounted, no midnight callback
\* runs and no re-query is sent for it.
C9_NothingAfterUnmount ==
  [][\A t \in Tabs :
       ~mounted[t] =>
         /\ ~(timer[t].due # NoTime /\ timer'[t] = NoTimer)
         /\ pending'[t] \subseteq pending[t]]_vars

\* ---- C10: when a write of submitCheckOut has failed, the continuation
\* shows an error and leaves isCheckedIn, checkInTime, attendanceId,
\* isCompletedToday, the open form and its entries as they were.
CheckOutFails(t) ==
  /\ op[t].kind = "checkout" /\ op[t].pc = "finish" /\ ~op[t].ok
  /\ op'[t] # op[t]

C10_FailedCheckOutKeepsState ==
  [][\A t \in Tabs :
       CheckOutFails(t) =>
         /\ toast'[t] = ErrorToast(op[t].message)
         /\ op'[t] = NoOp
         /\ UNCHANGED <<attState, formState>>]_vars

\* the attendance row was updated, a later write failed, and the widget is
\* still checked in with its form open and filled
C10_Witness ==
  \E t \in Tabs :
    /\ toast[t] = ErrorToast(FailedToFetch)
    /\ op[t].kind = "none"
    /\ isCheckedIn[t] /\ ~isCompletedToday[t] /\ showTimesheetDialog[t]
    /\ validateTimesheet(entries[t])
    /\ \E r \in attendance : r.id = attendanceId[t] /\ r.check_out_time # NoTime

\* ---- C11: a checkIn or submitCheckOut that is attempted again after an
\* attempt failed on an outage, and that meets no outage itself, completes:
\* it never ends with an error that is not an outage.
C11_RetryCompletes ==
  [][\A t \in Tabs :
       (/\ op[t].kind = "checkout" /\ op[t].pc = "finish" /\ op'[t] = NoOp
        /\ toast[t] = ErrorToast(FailedToFetch))
       => (op[t].ok \/ op[t].message = FailedToFetch)]_vars

\* ---- C12: whenever no submitCheckOut is in flight, an attendance row with
\* a check-out time has a timesheet row for its date with at least one entry
\* that has both times.
C12_CheckedOutHasTimesheet ==
  (\A t \in Tabs : op[t].kind # "checkout") =>
    \A r \in attendance :
      r.check_out_time # NoTime =>
        \E s \in timesheets :
          /\ s.timesheet_date = r.attendance_date
          /\ \E e \in timesheet_entries : e.timesheet_id = s.id /\ Filled(e)

FormOpens(t) == ~showTimesheetDialog[t] /\ showTimesheetDialog'[t]
FormCancelled(t) ==
  /\ showTimesheetDialog[t] /\ ~showTimesheetDialog'[t]
  /\ mounted'[t] /\ op'[t] = op[t]

C14_RequestCheckOutFrame ==
  [][\A t \in Tabs :
       (FormOpens(t) \/ FormCancelled(t)) =>
         /\ isCheckedIn'[t] = isCheckedIn[t]
         /\ checkInTime'[t] = checkInTime[t]
         /\ attendanceId'[t] = attendanceId[t]
         /\ isCompletedToday'[t] = isCompletedToday[t]
         /\ entries'[t] = entries[t]
         /\ UNCHANGED backend]_vars

\* the form was opened, typed into and cancelled: it is closed with the
\* typed text still in it, and the widget is still checked in on an open row
C14_Witness ==
  \E t \in Tabs :
    /\ mounted[t] /\ ~showTimesheetDialog[t] /\ entries[t] # EmptyEntries
    /\ isCheckedIn[t] /\ ~isCompletedToday[t]
    /\ \E r \in attendance : r.id = attendanceId[t] /\ r.check_out_time = NoTime

\* ---- C15 (as claimed): the hours stored for a timesheet entry equal
\* (to - from), with 24h added when to <= from.
Duration(e) ==
  LET f == Minutes(e.from_time)
      t == Minutes(e.to_time)
  IN IF t <= f THEN t - f + 24 * 60 ELSE t - f

C15_HoursExact ==
  \A e \in timesheet_entries : e.hours * 60 = Duration(e) * 100

\* ---- C15 (amended): the hours stored for a timesheet entry equal
\* (to - from), with 24h added when to <= from, rounded to two decimals; the
\* result is greater than 0 and at most 24 (22:00 to 02:00 gives 4.00, to
\* equal to from gives 24.00).
C15_HoursRounded ==
  \A e \in timesheet_entries :
    /\ e.hours = (Duration(e) * 100 + 30) \div 60
    /\ e.hours > 0 /\ e.hours <= 2400
    /\ (e.from_time = <<22, 0>> /\ e.to_time = <<2, 0>>) => e.hours = 400
    /\ e.from_time = e.to_time => e.hours = 2400

\* an entry typed as 22:00 to 02:00 is stored with 4.00 hours
C15_Witness ==
  \E e \in timesheet_entries :
    e.from_time = <<22, 0>> /\ e.to_time = <<2, 0>> /\ e.hours = 400

\* ---- C16: the total hours written on a record at check-out equal the time
\* elapsed between the record's check-in time and its check-out time, in
\* hours, for every record the widget checks out.
C16_TotalHoursElapsed ==
  \A r \in attendance :
    r.check_out_time # NoTime =>
      r.total_hours = r.check_out_time - r.check_in_time

\* ---- C17: when the insert of a checkIn is refused by the uniqueness
\* constraint, the notice shown is the generic "Already Checked In" one, not
\* the backend's error text.
C17_DuplicateShownGeneric ==
  [][\A t \in Tabs :
       (CheckInFails(t) /\ op[t].message = DuplicateKey) =>
         toast'[t] = AlreadyCheckedInToast]_vars

\* ---- C18: ProtectedRoute, whatever allowedRoles it is given, renders its
\* children exactly when loading has finished, an identity is signed in and
\* (allowedRoles given) the identity's role is in allowedRoles; without an
\* identity it navigates to /login, with a role outside allowedRoles to the
\* dashboard of that role; and the route table never renders the page set of
\* a role for an identity of another role.
C18_RouteGate ==
  /\ \A allowedRoles \in (SUBSET Roles) \cup {NoRoles} : \A b \in PageSets :
       LET e == ProtectedRoute(allowedRoles, LayoutElement(b))
       IN /\ e.kind = "children" <=>
               /\ ~authLoading
               /\ authUser # NoUser
               /\ allowedRoles = NoRoles \/ authUser \in allowedRoles
          /\ (~authLoading /\ authUser = NoUser) => e = NavigateElement(Login)
          /\ (/\ ~authLoading
              /\ authUser # NoUser
              /\ allowedRoles # NoRoles
              /\ authUser \notin allowedRoles)
             => e = NavigateElement(At("/" \o authUser, ""))
  /\ element.kind = "children" =>
       /\ authUser # NoUser
       /\ element.base = "/" \o authUser
       /\ location.base = element.base

\* an employee stands on a page of the admin tree and is sent to /employee
C18_Witness ==
  /\ ~authLoading
  /\ authUser = "employee"
  /\ location = At("/admin", "payroll")
  /\ element = NavigateElement(At("/employee", ""))

\* the roles user uid holds
RolesOf(uid) == {r \in Roles : [user_id |-> uid, role |-> r] \in user_roles}
\* profile p is a profile of user uid
Belongs(p, uid) == \E q \in profiles : q.id = p /\ q.user_id = uid
\* the rows a statement reads or leaves behind
TouchedRows(req) ==
  CASE req.cmd = "SELECT" -> {req.old}
    [] req.cmd = "INSERT" -> {req.new}
    [] req.cmd = "UPDATE" -> {req.old, req.new}
    [] OTHER -> {}

\* ---- C19: a statement on attendance of a caller whose only role is
\* employee is let through (SELECT, INSERT, UPDATE) only if the profile of
\* every row it touches belongs to the caller; SELECT, INSERT and UPDATE of
\* an admin or HR caller are let through on any row; a DELETE is let through
\* exactly for an admin.
C19_AttendancePolicies ==
  request.cmd # "none" =>
    /\ (/\ RolesOf(request.uid) = {"employee"}
        /\ request.cmd \in {"SELECT", "INSERT", "UPDATE"}
        /\ granted)
       => \A p \in TouchedRows(request) : Belongs(p, request.uid)
    /\ (/\ RolesOf(request.uid) \cap {"admin", "hr"} # {}
        /\ request.cmd \in {"SELECT", "INSERT", "UPDATE"})
       => granted
    /\ request.cmd = "DELETE" => (granted <=> "admin" \in RolesOf(request.uid))

\* an employee's UPDATE that hands the own row to another profile is refused,
\* while HR's UPDATE of a foreign row goes through
C19_Witness ==
  /\ request.cmd = "UPDATE"
  /\ RolesOf(request.uid) = {"employee"}
  /\ Belongs(request.old, request.uid)
  /\ ~Belongs(request.new, request.uid)
  /\ ~granted

\* ---- C20 (as stated): the cell of a row on the attendance sheet shows the
\* running time currentTime - check_in_time exactly when the row has a
\* check-in and no check-out, and shows the stored total_hours whenever the
\* row has a check-out and a stored total_hours, a stored 0 included.
C20_WorkingTimeSource ==
  /\ workingHours.source = "live" <=>
       (sheetRecord.check_in_time # NoTime /\ sheetRecord.check_out_time = NoTime)
  /\ workingHours.source = "live" =>
       workingHours.hours * 3600 + workingHours.minutes * 60
         + workingHours.seconds = currentTime - sheetRecord.check_in_time
  /\ (sheetRecord.check_out_time # NoTime /\ sheetRecord.total_hours # NoTime)
       => workingHours.source = "stored"

\* ---- C21: within a submitCheckOut the writes go attendance update, then
\* timesheet insert, then entries insert, one table per step and each only
\* after the one before it went through: a timesheet row is inserted only
\* when a record carries the check-out of that submission, entries are
\* inserted only under an inserted timesheet, and the continuation marks the
\* widget CompletedToday only when all three are in the backend.
CheckedOutAt(date, hours) ==
  \E r \in attendance :
    /\ r.check_out_time # NoTime
    /\ DateOf(r.check_out_time) = date
    /\ r.total_hours = hours

C21_WriteOrder ==
  [][/\ attendance' # attendance => UNCHANGED <<timesheets, timesheet_entries>>
     /\ timesheets' # timesheets => UNCHANGED <<attendance, timesheet_entries>>
     /\ \A s \in timesheets' \ timesheets :
          CheckedOutAt(s.timesheet_date, s.total_hours)
     /\ \A e \in timesheet_entries' \ timesheet_entries :
          \E s \in timesheets :
            /\ s.id = e.timesheet_id
            /\ CheckedOutAt(s.timesheet_date, s.total_hours)
     /\ \A t \in Tabs :
          (/\ op[t].kind = "checkout" /\ op'[t] = NoOp
           /\ ~isCompletedToday[t] /\ isCompletedToday'[t])
          => /\ \E r \in attendance :
                  r.id = op[t].attendanceId /\ r.check_out_time = op[t].now
             /\ \E s \in timesheets :
                  /\ s.id = op[t].timesheetId
                  /\ \E e \in timesheet_entries : e.timesheet_id = s.id]_vars

\* a submission between its second and its third write: the record is
\* checked out, the timesheet is in, its entries are not
C21_Witness ==
  \E t \in Tabs :
    /\ op[t].kind = "checkout" /\ op[t].pc = "entries"
    /\ ~isCompletedToday[t]
    /\ \E r \in attendance :
         r.id = op[t].attendanceId /\ r.check_out_time = op[t].now
    /\ \E s \in timesheets : s.id = op[t].timesheetId
    /\ \A e \in timesheet_entries : e.timesheet_id # op[t].timesheetId

\* ---- C22 (as stated): a mounted widget never has isCheckedIn and
\* isCompletedToday both true, and while isCheckedIn is true it holds an
\* attendanceId and a checkInTime.
C22_OneOfThree ==
  \A t \in Tabs :
    mounted[t] =>
      /\ ~(isCheckedIn[t] /\ isCompletedToday[t])
      /\ isCheckedIn[t] => (attendanceId[t] # NullId /\ checkInTime[t] # NoTime)

\* ---- C24 (as stated): a submit of the capture form starts the write
\* sequence of submitCheckOut only when the widget shows CheckedIn; in a
\* widget that has moved to CompletedToday or NotCheckedIn while the form
\* was open a submit sends nothing to the backend.
SubmitStarts(t) == op[t].kind = "none" /\ op'[t].kind = "checkout"

C24_SubmitOnlyCheckedIn ==
  [][\A t \in Tabs : SubmitStarts(t) => Display(t) = "CheckedIn"]_vars

\* ---- C25 (as stated): a re-query answer delivered to a widget that shows
\* CheckedIn on the record of today (its own check-in went through) does not
\* make it show NotCheckedIn, also when the answer was read before the
\* check-in.
AnswerDelivered(t) ==
  \E r \in pending[t] : r \notin pending'[t] /\ mounted[t] /\ mounted'[t]

C25_StaleAnswerKeepsCheckedIn ==
  [][\A t \in Tabs :
       (/\ AnswerDelivered(t)
        /\ Display(t) = "CheckedIn"
        /\ toast[t].title = "Checked In"
        /\ \E r \in RowsOf(today) : r.id = attendanceId[t])
       => Display(t)' # "NotCheckedIn"]_vars

\* ---- C26 (as stated): a widget that shows CompletedToday, with no handler
\* and no re-query in flight and no midnight callback overdue, stands on a
\* backend record of the current local date that has a check-out time.
Quiet(t) ==
  /\ mounted[t]
  /\ op[t].kind = "none"
  /\ pending[t] = {}
  /\ ~(timer[t].due # NoTime /\ now >= timer[t].due)

C26_CompletedHasRecord ==
  \A t \in Tabs :
    (Quiet(t) /\ Display(t) = "CompletedToday")
    => \E r \in RowsOf(today) : r.check_out_time # NoTime

\* ---- C27 (as stated): a record gets its check-out time only on its own
\* attendance date: a record left open when its day ended is not checked out
\* by the widget on a later day.
C27_NoLateCheckOut ==
  [][\A r \in attendance : \A q \in attendance' :
       (q.id = r.id /\ r.check_out_time = NoTime /\ q.check_out_time # NoTime)
       => DateOf(q.check_out_time) = r.attendance_date]_vars

\* ---- C29: the loading flag of a widget is true only while a checkIn or a
\* submitCheckOut of that widget is in flight, and it is false after every
\* way such an operation ends: success, backend error, or an early return
\* on a precondition (which never raises it).
OpEnds(t) == op[t].kind # "none" /\ op'[t].kind = "none"
EarlyReturn(t) ==
  /\ op[t].kind = "none" /\ op'[t].kind = "none"
  /\ toast'[t] # toast[t]
  /\ toast'[t] \in {AlreadyCheckedInToast, TimesheetRequiredToast}

C29_LoadingFlag ==
  [][\A t \in Tabs :
       /\ loading'[t] => (mounted'[t] /\ op'[t].kind \in {"checkin", "checkout"})
       /\ (mounted'[t] /\ op'[t].kind # "none") => loading'[t]
       /\ OpEnds(t) => ~loading'[t]
       /\ EarlyReturn(t) => (~loading[t] /\ ~loading'[t])]_vars

\* a check-in has ended on a backend error, and the flag is down
C29_Witness ==
  \E t \in Tabs :
    /\ mounted[t] /\ op[t].kind = "none" /\ ~loading[t]
    /\ toast[t] = ErrorToast(DuplicateKey)

\* ---- C30: a failed address lookup neither blocks nor fails a checkIn or
\* a submitCheckOut: the insert and the update are issued all the same and
\* write a null address (the looked-up address when the lookup answered),
\* every failure of the operation is a refusal of a backend call, and no
\* notice reports the lookup.
WriteRefused(t) ==
  /\ op[t].pc \in {"insert", "update"} /\ op'[t].pc = "finish" /\ ~op'[t].ok
WriteDone(t) ==
  /\ op[t].pc \in {"insert", "update"} /\ op'[t].pc # op[t].pc
  /\ ~WriteRefused(t)
ExpectedIp == IF ipService THEN ClientIp ELSE NullIp

C30_LookupNeverFails ==
  [][\A t \in Tabs :
       /\ (WriteDone(t) /\ op[t].kind = "checkin") =>
            \E r \in attendance' \ attendance :
              r.id = op'[t].id /\ r.check_in_ip = ExpectedIp
       /\ (WriteDone(t) /\ op[t].kind = "checkout") =>
            \E r \in attendance' :
              /\ r.id = op[t].attendanceId
              /\ r.check_out_time = now
              /\ r.check_out_ip = ExpectedIp
       /\ WriteRefused(t) =>
            (failures' = failures + 1 \/ AttendanceUniqueViolated(today))
       /\ toast'[t] # toast[t] =>
            toast'[t].description \in
              {"", FailedToFetch, DuplicateKey,
               AlreadyCheckedInToast.description,
               TimesheetRequiredToast.description}]_vars

\* with the lookup down the widget checked in and checked out: the record
\* carries both times and no address
C30_Witness ==
  \E t \in Tabs : \E r \in attendance :
    /\ r.id = attendanceId[t]
    /\ toast[t].title = "Checked Out Successfully"
    /\ r.check_in_time # NoTime /\ r.check_out_time # NoTime
    /\ r.check_in_ip = NullIp /\ r.check_out_ip = NullIp

\* ---- C23: the create-user endpoint creates an account, a role row or
\* leave balances only for a request that carried an Authorization header of
\* a known caller whose role was admin or hr, had its required fields, and
\* (caller hr) asked for the role employee; a request without header, of an
\* unknown caller, of a caller without the admin or hr role, of hr asking for
\* admin or hr, or with a missing field is answered with an error and
\* creates nothing.
Creates ==
  \/ accounts' # accounts
  \/ leave_balances' # leave_balances
  \/ \E x \in user_roles' \ user_roles : x.user_id \notin Users
Refusable(c) ==
  \/ ~c.header
  \/ c.caller = NoCaller
  \/ RolesOf(c.caller) \cap {"admin", "hr"} = {}
  \/ c.body = "missing" \/ (c.body = "complete" /\ c.role = "")
  \/ (RolesOf(c.caller) = {"hr"} /\ c.role \in {"admin", "hr"})

C23_CreateUserGate ==
  [][/\ Creates =>
          /\ call.header /\ call.caller # NoCaller
          /\ call.callerRole \in {"admin", "hr"}
          /\ call.body = "complete" /\ call.role # ""
          /\ call.callerRole = "hr" => call.role = "employee"
     /\ (call.pc = "verify" /\ call'.pc # "verify" /\ Refusable(call)) =>
          /\ call'.pc = "idle"
          /\ response'.status \in {400, 401, 403}
          /\ ~Creates
          /\ \A x \in user_roles' : x \in user_roles]_vars

\* an hr caller created an employee account with its role and leave balances
C23_Witness ==
  /\ response.status = 200
  /\ call.callerRole = "hr" /\ call.role = "employee"
  /\ \E a \in accounts :
       /\ [user_id |-> a, role |-> "employee"] \in user_roles
       /\ a \in leave_balances

\* ---- C28 (as stated): once signOut() of the provider has returned, and
\* until a later SIGNED_IN or TOKEN_REFRESHED event, user, session and
\* authUser are null, whether the remote sign-out went through or failed and
\* whether or not a refreshUser call was in flight.
C28_SignedOutStaysNull ==
  signOutPc = "returned" =>
    (user = NoUser /\ session = NoSession /\ authUser = NoUser)

TypeOK ==
  /\ now \in 0..LastTime(MaxSoloDay)
  /\ mounted \in [Tabs -> BOOLEAN]
  /\ isCheckedIn \in [Tabs -> BOOLEAN]
  /\ isCompletedToday \in [Tabs -> BOOLEAN]
  /\ loading \in [Tabs -> BOOLEAN]
  /\ \A t \in Tabs : Cardinality(pending[t]) <= MaxPending
====
